---- MODULE Spec2Model ----
(***************************************************************************)
(* Model of packages/next/src/server/after/after-context.ts:               *)
(* AfterContextImpl (run, after, addCallback, runCallbacksOnClose,         *)
(* runCallbacks), the restricted request store handed to draining          *)
(* callbacks, and the host bindings waitUntil / onClose.                   *)
(*                                                                         *)
(* One context is modelled.  JavaScript runs to completion: the            *)
(* synchronous part of runCallbacks (the Array.map over the queue) is      *)
(* split into one step per callback, and no other code is scheduled while  *)
(* drainPhase = "mapping".                                                 *)
(***************************************************************************)
EXTENDS Integers, Sequences, FiniteSets, TLC

\* ---------------------------------------------------------------- bounds
MaxAfterCalls == 3      \* calls of after() with a promise or a function
MaxCloseFires == 2      \* times the host invokes the registered close callback
MaxStores     == 1      \* distinct request stores passed to run()

Ids    == 1..MaxAfterCalls
Stores == 1..MaxStores
NoStore == 0            \* requestStore === undefined
DrainJob == 0           \* the promise of runCallbacksOnClose() in waitUntilCalls

\* ---------------------------------------------------------------- errors
ErrNone         == "none"
ErrWaitUntil    == "waitUntil is not implemented"
ErrRequestStore == "Invariant: expected requestStore to be initialized"
ErrOnClose      == "onClose is not implemented"
ErrType         == "must receive a promise or a function"
ErrNestedAfter  == "Cannot call unstable_after() from within unstable_after()"
ErrNestedRun    == "Invariant: Cannot call AfterContext.run() from within an unstable_after() callback"
ErrUser         == "error thrown by the callback's own code"

\* the message starts with "Invariant: "
HasInvariantPrefix(e) == e \in {ErrRequestStore, ErrNestedRun}
\* the message says the call was made from within an unstable_after() callback
IsNestingError(e) == e \in {ErrNestedAfter, ErrNestedRun}
\* the host capability the message names
Names(e) ==
  IF e = ErrWaitUntil THEN "waitUntil"
  ELSE IF e = ErrOnClose THEN "onClose"
  ELSE "nothing"

\* ---------------------------------------------------------------- tasks
\* A value passed to after(): what `=== null`, typeof and the `then` probe see.
TaskShapes ==
  { [isNull |-> FALSE, typeof |-> "object",   then |-> "function"],   \* a Promise
    [isNull |-> FALSE, typeof |-> "function", then |-> "absent"],     \* a callback
    [isNull |-> FALSE, typeof |-> "function", then |-> "function"],   \* a function carrying .then
    [isNull |-> TRUE,  typeof |-> "object",   then |-> "absent"],     \* null
    [isNull |-> FALSE, typeof |-> "object",   then |-> "absent"],     \* a plain object
    [isNull |-> FALSE, typeof |-> "object",   then |-> "other"],      \* { then: 1 }
    [isNull |-> FALSE, typeof |-> "number",   then |-> "absent"] }    \* 42

\* isPromise that does not probe `then`
isPromiseNoThenCheck(p) ==
  /\ ~p.isNull
  /\ p.typeof = "object"

isPromise(p) ==
  /\ ~p.isNull
  /\ p.typeof = "object"
  /\ p.then # "absent"
  /\ p.then = "function"

VARIABLES
  waitUntil,       \* BOOLEAN: opts.waitUntil is defined
  onClose,         \* BOOLEAN: opts.onClose is defined
  requestStore,    \* NoStore or the store set by run()
  afterCallbacks,  \* the pending queue: sequence of callback ids
  waitUntilCalls,  \* arguments of the calls of waitUntil, in order
  onCloseHooks,    \* number of callbacks registered with onClose
  closeFires,      \* number of times the host invoked the close callback
  drainPhase,      \* position of runCallbacksOnClose / runCallbacks
  drainIdx,        \* next index of the map over the queue
  drainLen,        \* length of the queue when the map started
  drainStore,      \* the store wrapped for the drain pass
  passes,          \* number of drain passes started
  invoked,         \* id -> number of invocations of the callback
  cbState,         \* id -> state of the callback's own execution
  wrapper,         \* id -> state of the async wrapper of the map
  logged,          \* id -> error passed to console.error
  nextId,          \* number of tasks (promises, functions) passed to after() so far
  pstate,          \* id -> state of a promise task
  phandled,        \* id -> a rejection handler is attached to the promise
  unhandled,       \* promises for which an unhandled rejection was raised
  mutableCookies,  \* cookies set on the request store's own mutableCookies
  inertCookies,    \* cookies set on the ResponseCookies made for the drain pass
  message,         \* the message passed to new InvariantError(message)
  errorMessage,    \* the message of the constructed InvariantError, <<>> before
  lastOp           \* the last call of run / after (direct or through the restricted
                   \* store), its outcome and whether the drain had settled

hostVars  == <<waitUntil, onClose>>
drainVars == <<drainPhase, drainIdx, drainLen, drainStore, passes, invoked, cbState, wrapper, logged>>
promVars  == <<pstate, phandled, unhandled>>
cookieVars == <<mutableCookies, inertCookies>>
errVars   == <<message, errorMessage>>
vars == <<waitUntil, onClose, requestStore, afterCallbacks, waitUntilCalls,
          onCloseHooks, closeFires, drainPhase, drainIdx, drainLen, drainStore, passes,
          invoked, cbState, wrapper, logged, nextId, pstate, phandled, unhandled,
          mutableCookies, inertCookies, message, errorMessage, lastOp>>

\* The context after construction.
InitContext ==
  /\ waitUntil \in BOOLEAN
  /\ onClose \in BOOLEAN
  /\ requestStore = NoStore
  /\ afterCallbacks = <<>>
  /\ waitUntilCalls = <<>>
  /\ onCloseHooks = 0
  /\ closeFires = 0
  /\ drainPhase = "none"
  /\ drainIdx = 0
  /\ drainLen = 0
  /\ drainStore = NoStore
  /\ passes = 0
  /\ invoked = [i \in Ids |-> 0]
  /\ cbState = [i \in Ids |-> "unstarted"]
  /\ wrapper = [i \in Ids |-> "unstarted"]
  /\ logged = [i \in Ids |-> ErrNone]
  /\ nextId = 0
  /\ pstate = [i \in Ids |-> "none"]
  /\ phandled = [i \in Ids |-> FALSE]
  /\ unhandled = {}
  /\ mutableCookies = {}
  /\ inertCookies = {}
  /\ lastOp = [op |-> "init", id |-> 0, err |-> ErrNone, settled |-> FALSE]

\* after-context.ts constructs no InvariantError.
Init ==
  /\ InitContext
  /\ message = <<>>
  /\ errorMessage = <<>>

\* The drain promise has settled.
Settled == drainPhase \in {"resolved", "rejected"}

\* No JavaScript of the handler or the host runs in the middle of the map.
Idle == drainPhase # "mapping"

\* ------------------------------------------------- AfterContextImpl.run
\* run(requestStore, callback): stores the request store, then calls the
\* callback (through cacheScope.run when a cache scope is configured, which
\* calls it all the same).  The callback is the handler, whose calls of
\* after() are the After actions.
run(rs, store) ==
  [err |-> ErrNone, requestStore |-> store]

\* after(promise) that sends the promise down the callback path: a drain
\* job is registered for it
afterPromiseViaDrainJob(wu, calls, id) ==
  IF ~wu
  THEN [err |-> ErrWaitUntil, handled |-> TRUE, waitUntilCalls |-> calls]
  ELSE [err |-> ErrNone, handled |-> TRUE,
        waitUntilCalls |-> Append(Append(calls, id), DrainJob)]

\* after(promise) that forgets task.catch(() => {})
afterPromiseNoCatch(wu, calls, id) ==
  IF ~wu
  THEN [err |-> ErrWaitUntil, handled |-> FALSE, waitUntilCalls |-> calls]
  ELSE [err |-> ErrNone, handled |-> FALSE, waitUntilCalls |-> Append(calls, id)]

\* ------------------------------------- AfterContextImpl.after, promise
\* task.catch(() => {}) comes first, then the waitUntil check, then the
\* hand-off.  calls is waitUntilCalls, id the promise.
afterPromise(wu, calls, id) ==
  IF ~wu
  THEN [err |-> ErrWaitUntil, handled |-> TRUE, waitUntilCalls |-> calls]
  ELSE [err |-> ErrNone, handled |-> TRUE, waitUntilCalls |-> Append(calls, id)]

\* addCallback that registers a drain job on every call, not only on the
\* empty -> non-empty transition
addCallbackReRegister(q, wu, rs, oc, calls, hooks, phase, id) ==
  LET unchanged(e) == [err |-> e, afterCallbacks |-> q, waitUntilCalls |-> calls,
                       onCloseHooks |-> hooks, drainPhase |-> phase]
  IN IF ~wu THEN unchanged(ErrWaitUntil)
     ELSE IF rs = NoStore THEN unchanged(ErrRequestStore)
     ELSE IF ~oc THEN unchanged(ErrOnClose)
     ELSE [err |-> ErrNone, afterCallbacks |-> Append(q, id),
           waitUntilCalls |-> Append(calls, DrainJob),
           onCloseHooks |-> hooks + 1, drainPhase |-> "waiting"]

\* addCallback that checks onClose before waitUntil
addCallbackOnCloseFirst(q, wu, rs, oc, calls, hooks, phase, id) ==
  LET unchanged(e) == [err |-> e, afterCallbacks |-> q, waitUntilCalls |-> calls,
                       onCloseHooks |-> hooks, drainPhase |-> phase]
  IN IF Len(q) = 0
     THEN IF ~oc THEN unchanged(ErrOnClose)
          ELSE IF ~wu THEN unchanged(ErrWaitUntil)
          ELSE IF rs = NoStore THEN unchanged(ErrRequestStore)
          ELSE [err |-> ErrNone, afterCallbacks |-> Append(q, id),
                waitUntilCalls |-> Append(calls, DrainJob),
                onCloseHooks |-> hooks + 1, drainPhase |-> "waiting"]
     ELSE [err |-> ErrNone, afterCallbacks |-> Append(q, id), waitUntilCalls |-> calls,
           onCloseHooks |-> hooks, drainPhase |-> phase]

\* addCallback that does not check the request store
addCallbackNoStoreCheck(q, wu, rs, oc, calls, hooks, phase, id) ==
  LET unchanged(e) == [err |-> e, afterCallbacks |-> q, waitUntilCalls |-> calls,
                       onCloseHooks |-> hooks, drainPhase |-> phase]
  IN IF Len(q) = 0
     THEN IF ~wu THEN unchanged(ErrWaitUntil)
          ELSE IF ~oc THEN unchanged(ErrOnClose)
          ELSE [err |-> ErrNone, afterCallbacks |-> Append(q, id),
                waitUntilCalls |-> Append(calls, DrainJob),
                onCloseHooks |-> hooks + 1, drainPhase |-> "waiting"]
     ELSE [err |-> ErrNone, afterCallbacks |-> Append(q, id), waitUntilCalls |-> calls,
           onCloseHooks |-> hooks, drainPhase |-> phase]

\* addCallback that pushes the callback before it checks the host bindings
addCallbackPushFirst(q, wu, rs, oc, calls, hooks, phase, id) ==
  LET failed(e) == [err |-> e, afterCallbacks |-> Append(q, id), waitUntilCalls |-> calls,
                    onCloseHooks |-> hooks, drainPhase |-> phase]
  IN IF Len(q) = 0
     THEN IF ~wu THEN failed(ErrWaitUntil)
          ELSE IF rs = NoStore THEN failed(ErrRequestStore)
          ELSE IF ~oc THEN failed(ErrOnClose)
          ELSE [err |-> ErrNone, afterCallbacks |-> Append(q, id),
                waitUntilCalls |-> Append(calls, DrainJob),
                onCloseHooks |-> hooks + 1, drainPhase |-> "waiting"]
     ELSE [err |-> ErrNone, afterCallbacks |-> Append(q, id), waitUntilCalls |-> calls,
           onCloseHooks |-> hooks, drainPhase |-> phase]

\* ------------------------------------------ AfterContextImpl.addCallback
\* q is afterCallbacks, wu/oc the host bindings, rs requestStore, calls
\* waitUntilCalls, hooks onCloseHooks, phase drainPhase.  The synchronous
\* part of runCallbacksOnClose() (up to its await) registers the close
\* callback; its promise goes to waitUntil.  A throw leaves before the push.
addCallback(q, wu, rs, oc, calls, hooks, phase, id) ==
  LET unchanged(e) == [err |-> e, afterCallbacks |-> q, waitUntilCalls |-> calls,
                       onCloseHooks |-> hooks, drainPhase |-> phase]
  IN IF Len(q) = 0
     THEN IF ~wu THEN unchanged(ErrWaitUntil)
          ELSE IF rs = NoStore THEN unchanged(ErrRequestStore)
          ELSE IF ~oc THEN unchanged(ErrOnClose)
          ELSE [err |-> ErrNone, afterCallbacks |-> Append(q, id),
                waitUntilCalls |-> Append(calls, DrainJob),
                onCloseHooks |-> hooks + 1, drainPhase |-> "waiting"]
     ELSE [err |-> ErrNone, afterCallbacks |-> Append(q, id), waitUntilCalls |-> calls,
           onCloseHooks |-> hooks, drainPhase |-> phase]

\* restricted after that forwards to the context's queue
ViewAfterForward(q, id) ==
  [err |-> ErrNone, queue |-> Append(q, id)]

\* restricted run that forwards to the context
ViewRunForward(rs, store) ==
  [err |-> ErrNone, requestStore |-> store]

\* ------------------------------------- wrapRequestStoreForAfterCallbacks
\* afterContext.after of the restricted store: throws, touches nothing.
ViewAfter(q, id) ==
  [err |-> ErrNestedAfter, queue |-> q]

\* afterContext.run of the restricted store: throws, touches nothing.
ViewRun(rs, store) ==
  [err |-> ErrNestedRun, requestStore |-> rs]

\* restricted store that forwards mutableCookies like the other fields
ViewMutableCookiesShared(store) == "original"

\* mutableCookies of the restricted store: new ResponseCookies(new Headers()),
\* an instance of its own, not the one of the wrapped store.
ViewMutableCookies(store) == "inert"

\* wrapper without the try / catch
WrapperNoCatch(outcome, err) ==
  IF outcome = "pending" THEN [state |-> "pending", logged |-> ErrNone]
  ELSE IF outcome = "failed" THEN [state |-> "rejected", logged |-> ErrNone]
  ELSE [state |-> "fulfilled", logged |-> ErrNone]

\* ------------------------------------------------------ runCallbacksImpl
\* The async arrow of the map: try { await afterCallback() } catch { log }.
\* outcome is "returned", "failed" or "pending"; err the error of a failure.
Wrapper(outcome, err) ==
  IF outcome = "pending" THEN [state |-> "pending", logged |-> ErrNone]
  ELSE IF outcome = "failed" THEN [state |-> "fulfilled", logged |-> err]
  ELSE [state |-> "fulfilled", logged |-> ErrNone]

\* Promise.race in place of Promise.all: settles with the first wrapper
PromiseRace(ws) ==
  IF "rejected" \in ws THEN "rejected"
  ELSE IF "fulfilled" \in ws \/ ws = {} THEN "fulfilled"
  ELSE "pending"

\* Promise.all over the wrappers of the mapped callbacks.
PromiseAll(ws) ==
  IF "rejected" \in ws THEN "rejected"
  ELSE IF ws \subseteq {"fulfilled"} THEN "fulfilled"
  ELSE "pending"

\* a close callback that restarts the drain each time the host calls it
resolveCloseEveryTime(phase) ==
  IF phase \in {"waiting", "resolved"} THEN "ready" ELSE phase

\* The host calls resolve of `new Promise((resolve) => this.onClose(resolve))`:
\* only the first call has an effect.
resolveClose(phase) ==
  IF phase = "waiting" THEN "ready" ELSE phase

\* runCallbacksOnClose that does not await the close promise
closeNotAwaited(phase) == phase \in {"waiting", "ready"}

\* The await of runCallbacksOnClose lets its continuation run once the close
\* promise is resolved.
closeAwaited(phase) == phase = "ready"

\* ---------------------------------------------------------------- actions
Run(store) ==
  /\ Idle
  /\ LET r == run(requestStore, store)
     IN /\ requestStore' = r.requestStore
        /\ lastOp' = [op |-> "run", id |-> 0, err |-> r.err, settled |-> Settled]
  /\ UNCHANGED <<hostVars, errVars, cookieVars, afterCallbacks, waitUntilCalls, onCloseHooks, closeFires,
                 drainVars, nextId, promVars>>

\* after(task), task a promise in state s
AfterPromise(task, s) ==
  /\ Idle
  /\ nextId < MaxAfterCalls
  /\ isPromise(task)
  /\ LET id == nextId + 1
         r  == afterPromise(waitUntil, waitUntilCalls, id)
     IN /\ nextId' = id
        /\ pstate' = [pstate EXCEPT ![id] = s]
        /\ phandled' = [phandled EXCEPT ![id] = r.handled]
        /\ unhandled' = IF s = "rejected" /\ ~r.handled THEN unhandled \cup {id} ELSE unhandled
        /\ waitUntilCalls' = r.waitUntilCalls
        /\ lastOp' = [op |-> "afterPromise", id |-> id, err |-> r.err, settled |-> Settled]
  /\ UNCHANGED <<hostVars, errVars, cookieVars, requestStore, afterCallbacks, onCloseHooks, closeFires,
                 drainVars>>

\* after(task), task a function
AfterCallback(task) ==
  /\ Idle
  /\ nextId < MaxAfterCalls
  /\ ~isPromise(task)
  /\ task.typeof = "function"
  /\ LET id == nextId + 1
         r  == addCallback(afterCallbacks, waitUntil, requestStore, onClose,
                           waitUntilCalls, onCloseHooks, drainPhase, id)
     IN /\ nextId' = id
        /\ afterCallbacks' = r.afterCallbacks
        /\ waitUntilCalls' = r.waitUntilCalls
        /\ onCloseHooks' = r.onCloseHooks
        /\ drainPhase' = r.drainPhase
        /\ lastOp' = [op |-> "afterCallback", id |-> id, err |-> r.err, settled |-> Settled]
  /\ UNCHANGED <<hostVars, errVars, cookieVars, requestStore, closeFires, drainIdx, drainLen, drainStore,
                 passes, invoked, cbState, wrapper, logged, promVars>>

\* after(task), task neither a promise nor a function
AfterInvalid(task) ==
  /\ Idle
  /\ ~isPromise(task)
  /\ task.typeof # "function"
  /\ lastOp' = [op |-> "afterInvalid", id |-> 0, err |-> ErrType, settled |-> Settled]
  /\ UNCHANGED <<hostVars, errVars, cookieVars, requestStore, afterCallbacks, waitUntilCalls, onCloseHooks,
                 closeFires, drainVars, nextId, promVars>>

\* The host invokes a callback registered with onClose.
CloseSignal ==
  /\ Idle
  /\ onCloseHooks > 0
  /\ closeFires < MaxCloseFires
  /\ closeFires' = closeFires + 1
  /\ drainPhase' = resolveClose(drainPhase)
  /\ UNCHANGED <<hostVars, errVars, cookieVars, requestStore, afterCallbacks, waitUntilCalls, onCloseHooks,
                 drainIdx, drainLen, drainStore, passes, invoked, cbState, wrapper,
                 logged, nextId, promVars, lastOp>>

\* Continuation of runCallbacksOnClose: runCallbacks(this.requestStore) up to
\* the start of the map.
DrainStart ==
  /\ closeAwaited(drainPhase)
  /\ IF Len(afterCallbacks) = 0
     THEN /\ drainPhase' = "resolved"
          /\ UNCHANGED <<drainIdx, drainLen, drainStore, passes>>
     ELSE /\ drainPhase' = "mapping"
          /\ drainIdx' = 1
          /\ drainLen' = Len(afterCallbacks)
          /\ drainStore' = requestStore
          /\ passes' = passes + 1
  /\ UNCHANGED <<hostVars, errVars, cookieVars, requestStore, afterCallbacks, waitUntilCalls, onCloseHooks,
                 closeFires, invoked, cbState, wrapper, logged, nextId, promVars,
                 lastOp>>

SyncBehaviours == {"return", "throw", "suspend", "nestedAfter", "nestedRun", "setCookie"}
LateBehaviours == {"fulfil", "reject", "nestedAfter", "nestedRun"}

\* What the callback's own code does, given what a nested call answered.
\* b is the behaviour, va / vr the answers of the restricted after / run.
CallbackOutcome(b, va, vr) ==
  IF b \in {"return", "fulfil", "setCookie"} THEN [state |-> "returned", err |-> ErrNone]
  ELSE IF b \in {"throw", "reject"} THEN [state |-> "failed", err |-> ErrUser]
  ELSE IF b = "suspend" THEN [state |-> "pending", err |-> ErrNone]
  ELSE IF b = "nestedAfter"
       THEN IF va.err = ErrNone THEN [state |-> "returned", err |-> ErrNone]
            ELSE [state |-> "failed", err |-> va.err]
  ELSE IF vr.err = ErrNone THEN [state |-> "returned", err |-> ErrNone]
       ELSE [state |-> "failed", err |-> vr.err]

\* The effect of one callback run (its synchronous part, or its part after an
\* await) on the context; both run under the restricted store, so a
\* mutableCookies.set(...) of the callback goes to the restricted store's
\* mutableCookies.
CallbackEffect(id, b) ==
  LET va == ViewAfter(afterCallbacks, id)
      vr == ViewRun(requestStore, drainStore)
      o  == CallbackOutcome(b, va, vr)
      w  == Wrapper(o.state, o.err)
  IN /\ afterCallbacks' = IF b = "nestedAfter" THEN va.queue ELSE afterCallbacks
     /\ requestStore' = IF b = "nestedRun" THEN vr.requestStore ELSE requestStore
     /\ lastOp' = IF b = "nestedAfter" THEN [op |-> "viewAfter", id |-> id, err |-> va.err, settled |-> Settled]
                  ELSE IF b = "nestedRun" THEN [op |-> "viewRun", id |-> id, err |-> vr.err, settled |-> Settled]
                  ELSE lastOp
     /\ mutableCookies' = IF b = "setCookie" /\ ViewMutableCookies(drainStore) = "original"
                          THEN mutableCookies \cup {"cookie"} ELSE mutableCookies
     /\ inertCookies' = IF b = "setCookie" /\ ViewMutableCookies(drainStore) = "inert"
                        THEN inertCookies \cup {"cookie"} ELSE inertCookies
     /\ cbState' = [cbState EXCEPT ![id] = o.state]
     /\ wrapper' = [wrapper EXCEPT ![id] = w.state]
     /\ logged' = [logged EXCEPT ![id] = w.logged]

\* a map that walks the queue from its end
mapIndexReversed(i, n) == n - i + 1

\* Array.prototype.map visits the elements in index order: the i-th
\* iteration of n takes element i.
mapIndex(i, n) == i

\* a loop that awaits each callback before it calls the next one
MapStepSequential(b) ==
  /\ drainPhase = "mapping"
  /\ drainIdx <= drainLen
  /\ \A j \in 1..(drainIdx - 1) : cbState[afterCallbacks[j]] # "pending"
  /\ LET id == afterCallbacks[mapIndex(drainIdx, drainLen)]
     IN /\ invoked' = [invoked EXCEPT ![id] = @ + 1]
        /\ CallbackEffect(id, b)
  /\ drainIdx' = drainIdx + 1
  /\ drainPhase' = IF drainIdx + 1 > drainLen THEN "joining" ELSE "mapping"
  /\ UNCHANGED <<hostVars, errVars, waitUntilCalls, onCloseHooks, closeFires, drainLen,
                 drainStore, passes, nextId, promVars>>

\* One iteration of this.afterCallbacks.map(...): the wrapper calls the
\* callback, which runs synchronously up to its first await.
MapStep(b) ==
  /\ drainPhase = "mapping"
  /\ drainIdx <= drainLen
  /\ LET id == afterCallbacks[mapIndex(drainIdx, drainLen)]
     IN /\ invoked' = [invoked EXCEPT ![id] = @ + 1]
        /\ CallbackEffect(id, b)
  /\ drainIdx' = drainIdx + 1
  /\ drainPhase' = IF drainIdx + 1 > drainLen THEN "joining" ELSE "mapping"
  /\ UNCHANGED <<hostVars, errVars, waitUntilCalls, onCloseHooks, closeFires, drainLen,
                 drainStore, passes, nextId, promVars>>

\* A callback that returned a pending promise settles.
CallbackSettle(id, b) ==
  /\ Idle
  /\ cbState[id] = "pending"
  /\ CallbackEffect(id, b)
  /\ UNCHANGED <<hostVars, errVars, waitUntilCalls, onCloseHooks, closeFires, drainPhase,
                 drainIdx, drainLen, drainStore, passes, invoked, nextId,
                 promVars>>

\* await Promise.all(...) : the drain promise settles.
Mapped == {afterCallbacks[i] : i \in 1..drainLen}

Join ==
  /\ drainPhase = "joining"
  /\ LET all == PromiseAll({wrapper[i] : i \in Mapped})
     IN /\ all # "pending"
        /\ drainPhase' = IF all = "fulfilled" THEN "resolved" ELSE "rejected"
  /\ UNCHANGED <<hostVars, errVars, cookieVars, requestStore, afterCallbacks, waitUntilCalls, onCloseHooks,
                 closeFires, drainIdx, drainLen, drainStore, passes, invoked, cbState,
                 wrapper, logged, nextId, promVars, lastOp>>

\* A promise handed to after() settles; a rejection nobody handles is reported.
PromiseSettle(id, s) ==
  /\ Idle
  /\ pstate[id] = "pending"
  /\ pstate' = [pstate EXCEPT ![id] = s]
  /\ unhandled' = IF s = "rejected" /\ ~phandled[id] THEN unhandled \cup {id} ELSE unhandled
  /\ UNCHANGED <<hostVars, errVars, cookieVars, requestStore, afterCallbacks, waitUntilCalls, onCloseHooks,
                 closeFires, drainVars, nextId, phandled, lastOp>>

MapAny == \E b \in SyncBehaviours : MapStep(b)

\* after(task): the branch of after() that the task selects.
After(task) ==
  \/ \E s \in {"pending", "fulfilled", "rejected"} : AfterPromise(task, s)
  \/ AfterCallback(task)
  \/ AfterInvalid(task)

Next ==
  \/ \E store \in Stores : Run(store)
  \/ \E task \in TaskShapes : After(task)
  \/ CloseSignal
  \/ DrainStart
  \/ MapAny
  \/ \E id \in Ids, b \in LateBehaviours : CallbackSettle(id, b)
  \/ Join
  \/ \E id \in Ids, s \in {"fulfilled", "rejected"} : PromiseSettle(id, s)

Spec == Init /\ [][Next]_vars

\* The event loop runs a continuation whose promise is resolved, and runs
\* synchronous code to its end.
FairSpec == Spec /\ WF_vars(DrainStart) /\ WF_vars(MapAny)

TypeOK ==
  /\ requestStore \in Stores \cup {NoStore}
  /\ drainPhase \in {"none", "waiting", "ready", "mapping", "joining", "resolved", "rejected"}
  /\ nextId \in 0..MaxAfterCalls
  /\ \A i \in 1..Len(afterCallbacks) : afterCallbacks[i] \in Ids

\* -------------------------------------------------------- InvariantError
\* Messages are sequences of characters.
MaxMsgLen == 6          \* length of the message passed to the constructor
Chars == {"x", "."}
Messages == UNION {[1..k -> Chars] : k \in 0..MaxMsgLen}

Prefix == <<"I", "n", "v", "a", "r", "i", "a", "n", "t", ":", " ">>
Suffix == <<" ", "T", "h", "i", "s", " ", "i", "s", " ", "a", " ", "b", "u", "g", " ",
            "i", "n", " ", "N", "e", "x", "t", ".", "j", "s", ".">>

\* String.prototype.endsWith for a one-character search string
endsWith(str, c) == Len(str) > 0 /\ str[Len(str)] = c

\* InvariantError that appends the period without looking
InvariantErrorAlwaysPeriod(msg) ==
  Prefix \o Append(msg, ".") \o Suffix

\* `Invariant: ${message.endsWith('.') ? message : message + '.'} This is a bug in Next.js.`
InvariantError(msg) ==
  Prefix \o (IF endsWith(msg, ".") THEN msg ELSE Append(msg, ".")) \o Suffix

InitError ==
  /\ InitContext
  /\ message \in Messages
  /\ errorMessage = <<>>

\* new InvariantError(message)
Construct ==
  /\ errorMessage = <<>>
  /\ errorMessage' = InvariantError(message)
  /\ UNCHANGED <<hostVars, cookieVars, requestStore, afterCallbacks, waitUntilCalls,
                 onCloseHooks, closeFires, drainVars, nextId, promVars, message, lastOp>>

NextError == Construct

ErrorSpec == InitError /\ [][NextError]_vars

\* ---------------------------------------------------------------- helpers
InQueue(id) == \E i \in 1..Len(afterCallbacks) : afterCallbacks[i] = id
Count(x, seq) == Cardinality({i \in 1..Len(seq) : seq[i] = x})
Drained == drainPhase \in {"joining", "resolved", "rejected"}

\* ---------------------------------------------------------------- claims

\* C1: with waitUntil, onClose and a request scope present (the only way a
\* drain job gets registered), once the close signal has taken effect the
\* drain pass eventually runs; it covers every callback queued at that
\* moment, there is exactly one pass and every callback of it is invoked
\* exactly once, however many after() calls were made.
C1_OneDrainRunsAll ==
  /\ (drainPhase = "ready") ~> Drained
  /\ [][(drainPhase = "ready" /\ drainPhase' # "ready") =>
          (drainLen' = Len(afterCallbacks) /\ drainLen' >= 1 /\ passes' = 1)]_vars
  /\ [](passes <= 1 /\ \A id \in Ids : invoked[id] <= 1)
  /\ [](Drained => passes = 1 /\ \A id \in Mapped : invoked[id] = 1)
  /\ [](drainPhase \in {"waiting", "ready"} =>
          waitUntil /\ onClose /\ requestStore # NoStore /\ Len(afterCallbacks) >= 1)

C1_Witness ==
  /\ Drained
  /\ drainLen = MaxAfterCalls
  /\ \A id \in Ids : invoked[id] = 1

\* C2: as long as the close callback has not been invoked, no queued callback
\* has started and no drain pass has begun; a call of after() never changes
\* the invocation counts.
C2_NothingBeforeClose ==
  /\ [](closeFires = 0 =>
          /\ passes = 0
          /\ \A id \in Ids : invoked[id] = 0 /\ cbState[id] = "unstarted")
  /\ [][nextId' # nextId => invoked' = invoked /\ cbState' = cbState]_vars

C2_Witness ==
  /\ closeFires = 0
  /\ Len(afterCallbacks) >= 2
  /\ drainPhase = "waiting"

\* C3: a callback that throws or rejects is logged by its own wrapper, which
\* still fulfils; every callback of the batch is invoked; once no callback is
\* pending the join is fulfilled, and the drain promise never rejects.
C3_FailuresIsolated ==
  /\ drainPhase # "rejected"
  /\ \A id \in Ids :
       /\ cbState[id] = "failed" => logged[id] # ErrNone /\ wrapper[id] = "fulfilled"
       /\ cbState[id] = "returned" => logged[id] = ErrNone /\ wrapper[id] = "fulfilled"
  /\ Drained => \A id \in Mapped : invoked[id] = 1
  /\ (drainPhase = "joining" /\ \A id \in Mapped : cbState[id] \in {"returned", "failed"})
       => PromiseAll({wrapper[i] : i \in Mapped}) = "fulfilled"

C3_Witness ==
  /\ drainPhase = "resolved"
  /\ drainLen = 3
  /\ cbState[afterCallbacks[1]] = "returned"
  /\ cbState[afterCallbacks[2]] = "failed"
  /\ logged[afterCallbacks[2]] = ErrUser
  /\ cbState[afterCallbacks[3]] = "returned"

\* C4: a call of after() or run() through the restricted store throws a
\* nesting error and leaves the queue and the context's request store as they
\* were; the failure stays with the calling callback, the batch still settles
\* with every callback invoked and every wrapper fulfilled.
C4_NestedCallsRejected ==
  /\ [][(lastOp' # lastOp /\ lastOp'.op \in {"viewAfter", "viewRun"}) =>
          /\ IsNestingError(lastOp'.err)
          /\ afterCallbacks' = afterCallbacks
          /\ requestStore' = requestStore
          /\ logged'[lastOp'.id] = lastOp'.err
          /\ \A id \in Ids \ {lastOp'.id} :
               cbState'[id] = cbState[id] /\ wrapper'[id] = wrapper[id]]_vars
  /\ [](drainPhase = "resolved" =>
          \A id \in Mapped : invoked[id] = 1 /\ wrapper[id] = "fulfilled")
  /\ [](Len(afterCallbacks) <= nextId)

C4_Witness ==
  /\ drainPhase = "resolved"
  /\ drainLen >= 2
  /\ \E a, b \in Mapped :
       /\ logged[a] = ErrNestedAfter
       /\ logged[b] = ErrNestedRun
  /\ \E c \in Mapped : cbState[c] = "returned"

\* C5: every promise passed to after() has a rejection handler attached, is
\* handed to waitUntil exactly once when waitUntil exists, and no unhandled
\* rejection is ever raised.
C5_PromiseHandedOnce ==
  /\ unhandled = {}
  /\ \A id \in Ids :
       pstate[id] # "none" =>
         /\ phandled[id]
         /\ waitUntil => Count(id, waitUntilCalls) = 1
         /\ ~waitUntil => Count(id, waitUntilCalls) = 0

C5_Witness ==
  \E id \in Ids :
    /\ pstate[id] = "rejected"
    /\ Count(id, waitUntilCalls) = 1

C7_QueueFrozenAfterDrainStart ==
  [][(drainPhase \in {"mapping", "joining", "resolved", "rejected"})
       => (afterCallbacks' = afterCallbacks)]_vars

\* C8: after(fn) on a context without waitUntil fails with the error naming
\* waitUntil, with or without onClose; the error naming onClose is raised only
\* when waitUntil is present and onClose is absent.
C8_WaitUntilNamedFirst ==
  lastOp.op = "afterCallback" =>
    /\ ~waitUntil => lastOp.err = ErrWaitUntil /\ Names(lastOp.err) = "waitUntil"
    /\ Names(lastOp.err) = "onClose" => waitUntil /\ ~onClose

C8_Witness ==
  /\ lastOp.op = "afterCallback"
  /\ ~waitUntil
  /\ onClose
  /\ requestStore # NoStore
  /\ Names(lastOp.err) = "waitUntil"

\* C9 as stated: when after(fn) fails because waitUntil or onClose is missing,
\* no drain job is registered but the callback is in the queue.
C9_FailedCallbackQueued ==
  (lastOp.op = "afterCallback" /\ Names(lastOp.err) \in {"waitUntil", "onClose"}) =>
    /\ Count(DrainJob, waitUntilCalls) = 0
    /\ onCloseHooks = 0
    /\ InQueue(lastOp.id)

\* C9 amended: when after(fn) fails because waitUntil or onClose is missing,
\* no drain job is registered and the callback is not appended: the queue
\* stays empty.
C9_FailedCallbackNotQueued ==
  (lastOp.op = "afterCallback" /\ Names(lastOp.err) \in {"waitUntil", "onClose"}) =>
    /\ Count(DrainJob, waitUntilCalls) = 0
    /\ onCloseHooks = 0
    /\ drainPhase = "none"
    /\ ~InQueue(lastOp.id)
    /\ afterCallbacks = <<>>

C9_Witness ==
  /\ lastOp.op = "afterCallback"
  /\ lastOp.err = ErrOnClose
  /\ lastOp.id = 1
  /\ afterCallbacks = <<>>

\* C10: on a context with waitUntil, without onClose and with a request store
\* set, every after(fn) fails with the error naming onClose and every
\* after(promise) succeeds with the promise handed to waitUntil.
C10_NoOnCloseCallbacksFail ==
  (waitUntil /\ ~onClose /\ requestStore # NoStore) =>
    /\ lastOp.op = "afterCallback" =>
         lastOp.err = ErrOnClose /\ Names(lastOp.err) = "onClose"
    /\ lastOp.op = "afterPromise" =>
         lastOp.err = ErrNone /\ Count(lastOp.id, waitUntilCalls) = 1

C10_Witness ==
  /\ waitUntil /\ ~onClose /\ requestStore # NoStore
  /\ lastOp.op = "afterCallback"
  /\ lastOp.id = 3
  /\ lastOp.err = ErrOnClose
  /\ Count(2, waitUntilCalls) = 1

\* C11: after(task) with a task that is neither an object with a callable
\* then nor a function throws the type-mismatch error, and the call changes
\* neither the queue, nor the calls of waitUntil, nor the close hooks, nor the
\* drain job, nor the promise bookkeeping.
C11_InvalidTaskRejected ==
  [][\A task \in TaskShapes :
       ( /\ After(task)
         /\ ~(~task.isNull /\ task.typeof = "object" /\ task.then = "function")
         /\ task.typeof # "function" )
       => /\ lastOp'.op = "afterInvalid"
          /\ lastOp'.err = ErrType
          /\ afterCallbacks' = afterCallbacks
          /\ waitUntilCalls' = waitUntilCalls
          /\ onCloseHooks' = onCloseHooks
          /\ drainPhase' = drainPhase
          /\ requestStore' = requestStore
          /\ nextId' = nextId
          /\ pstate' = pstate /\ phandled' = phandled]_vars

C11_Witness ==
  /\ lastOp.op = "afterInvalid"
  /\ lastOp.err = ErrType
  /\ lastOp.settled
  /\ Len(afterCallbacks) >= 1
  /\ Len(waitUntilCalls) >= 2

\* C12: a cookie set by a draining callback lands in the ResponseCookies made
\* for the drain pass; the request store's own mutableCookies never changes,
\* so after the drain nothing of the write is left on it.
C12_CookieWritesDiscarded ==
  /\ [][mutableCookies' = mutableCookies]_vars
  /\ [][(inertCookies' # inertCookies) =>
          (passes = 1 /\ drainPhase \in {"mapping", "joining", "resolved"}
             /\ inertCookies' = inertCookies \cup {"cookie"})]_vars
  /\ [](Settled => mutableCookies = {})

C12_Witness ==
  /\ drainPhase = "resolved"
  /\ inertCookies = {"cookie"}
  /\ mutableCookies = {}

\* ------------------------------------------------- claims on InvariantError
\* the part of the constructed message between the prefix and the note
Body == SubSeq(errorMessage, Len(Prefix) + 1, Len(errorMessage) - Len(Suffix))
Constructed == errorMessage # <<>>
\* number of periods the string ends with
RECURSIVE TrailingPeriods(_)
TrailingPeriods(str) ==
  IF endsWith(str, ".") THEN 1 + TrailingPeriods(SubSeq(str, 1, Len(str) - 1)) ELSE 0

\* C17 as stated: the message is the prefix, the original text ending with
\* exactly one period (added only when missing), and the note.
C17_SinglePeriod ==
  Constructed =>
    /\ SubSeq(errorMessage, 1, Len(Prefix)) = Prefix
    /\ SubSeq(errorMessage, Len(errorMessage) - Len(Suffix) + 1, Len(errorMessage)) = Suffix
    /\ Body \in {message, Append(message, ".")}
    /\ (Body = message) <=> endsWith(message, ".")
    /\ TrailingPeriods(Body) = 1

\* C17 amended: the message is the prefix, the original text, one period added
\* only when the text does not end with one, and the note; periods the text
\* already ends with are all kept, so the text ends with at least one period.
C17_PeriodAddedWhenMissing ==
  Constructed =>
    /\ SubSeq(errorMessage, 1, Len(Prefix)) = Prefix
    /\ SubSeq(errorMessage, Len(errorMessage) - Len(Suffix) + 1, Len(errorMessage)) = Suffix
    /\ Body \in {message, Append(message, ".")}
    /\ (Body = message) <=> endsWith(message, ".")
    /\ TrailingPeriods(Body) >= 1
    /\ TrailingPeriods(Body) = IF TrailingPeriods(message) = 0 THEN 1
                               ELSE TrailingPeriods(message)

C17_Witness ==
  /\ Constructed
  /\ TrailingPeriods(message) = 2
  /\ Body = message

\* ------------------------------------------------------ claims, continued

C14_NeverDrainsTwice ==
  /\ Count(DrainJob, waitUntilCalls) <= 1
  /\ onCloseHooks <= 1
  /\ passes <= 1
  /\ (lastOp.op = "afterCallback" /\ lastOp.settled) =>
       /\ lastOp.err = ErrNone
       /\ Settled
       /\ InQueue(lastOp.id)
       /\ invoked[lastOp.id] = 0

C14_Witness ==
  /\ lastOp.op = "afterCallback"
  /\ lastOp.settled
  /\ closeFires = 2
  /\ passes = 1

\* C15: the map starts every callback of the batch whatever the earlier ones
\* do: while callbacks are left to start the next iteration can run, even
\* with an earlier callback suspended; a suspended callback only keeps the
\* drain promise from settling, its siblings run and complete.
C15_AllFiredBeforeJoin ==
  /\ (drainPhase = "mapping") => ENABLED MapAny
  /\ Drained => \A id \in Mapped : invoked[id] = 1
  /\ (\E id \in Mapped : cbState[id] = "pending") => ~Settled

C15_Witness ==
  /\ drainPhase = "joining"
  /\ drainLen = 3
  /\ cbState[afterCallbacks[1]] = "pending"
  /\ cbState[afterCallbacks[2]] = "returned"
  /\ cbState[afterCallbacks[3]] = "failed"

\* C16: a call of after(promise) leaves the queue, the close hooks and the
\* drain job alone and adds only the promise to the calls of waitUntil; it
\* succeeds whenever waitUntil exists, without onClose and without run().
C16_PromisePathLeavesQueue ==
  /\ [][(nextId' # nextId /\ lastOp'.op = "afterPromise") =>
          /\ afterCallbacks' = afterCallbacks
          /\ onCloseHooks' = onCloseHooks
          /\ drainPhase' = drainPhase
          /\ Count(DrainJob, waitUntilCalls') = Count(DrainJob, waitUntilCalls)
          /\ waitUntil => (lastOp'.err = ErrNone
                             /\ waitUntilCalls' = Append(waitUntilCalls, lastOp'.id))]_vars
  /\ [](Count(DrainJob, waitUntilCalls) = onCloseHooks)

C16_Witness ==
  /\ waitUntil
  /\ ~onClose
  /\ requestStore = NoStore
  /\ lastOp.op = "afterPromise"
  /\ lastOp.err = ErrNone
  /\ waitUntilCalls = <<1, 2>>

\* C18: a drain job exists only on a context whose request store is set, and
\* a drain pass wraps a defined store; after(fn) with waitUntil present and no
\* run() before it throws the "Invariant: " error, queues nothing and
\* registers nothing.
C18_DrainHasRequestStore ==
  /\ drainPhase # "none" => requestStore # NoStore
  /\ passes >= 1 => drainStore # NoStore
  /\ (lastOp.op = "afterCallback" /\ waitUntil /\ requestStore = NoStore) =>
       /\ lastOp.err = ErrRequestStore
       /\ HasInvariantPrefix(lastOp.err)
       /\ afterCallbacks = <<>>
       /\ waitUntilCalls = <<>> \/ DrainJob \notin {waitUntilCalls[i] : i \in 1..Len(waitUntilCalls)}
       /\ onCloseHooks = 0
       /\ drainPhase = "none"

C18_Witness ==
  /\ lastOp.op = "afterCallback"
  /\ lastOp.err = ErrRequestStore
  /\ onClose
  /\ lastOp.id = 2

\* C19: the queue holds the callbacks in the order of their after() calls,
\* and the map starts them in queue order: when the callback at position j
\* has started, every callback before it has started too.
C19_StartedInScheduleOrder ==
  /\ \A i, j \in 1..Len(afterCallbacks) :
       i < j => afterCallbacks[i] < afterCallbacks[j]
  /\ \A i, j \in 1..Len(afterCallbacks) :
       (i < j /\ invoked[afterCallbacks[j]] >= 1) => invoked[afterCallbacks[i]] >= 1
  /\ drainPhase = "mapping" =>
       \A i \in 1..drainLen : (invoked[afterCallbacks[i]] >= 1) <=> (i < drainIdx)

C19_Witness ==
  /\ drainPhase = "mapping"
  /\ drainLen = 3
  /\ drainIdx = 2
  /\ invoked[afterCallbacks[1]] = 1
  /\ invoked[afterCallbacks[3]] = 0

\* C20: when the host invokes the registered close callback more than once,
\* still only one drain pass starts and no callback is invoked twice.
C20_RepeatedCloseDrainsOnce ==
  closeFires >= 2 =>
    /\ passes <= 1
    /\ \A id \in Ids : invoked[id] <= 1
    /\ drainPhase \notin {"none", "waiting"}

C20_Witness ==
  /\ closeFires >= 2
  /\ drainPhase = "resolved"
  /\ passes = 1
  /\ \E id \in Ids : invoked[id] = 1

====
